---------------------------- MODULE Spec2Model ----------------------------
(***************************************************************************)
(* A model of the MITM engine of gomitmproxy (src/mitm.go): the issuing-CA *)
(* lifecycle (GenerateCertForClient), the per-host leaf mint-and-cache     *)
(* path (FakeCertForName), the request dispatch (ServeHTTP), the HTTPS     *)
(* interceptor (InterceptHTTPs), the request relay (DumpHTTPAndHTTPs) with *)
(* its response observer (filter), and the opaque tunnel (Forward,         *)
(* Transport, MyCopy).                                                     *)
(*                                                                         *)
(* Time is a discrete clock `now`, counted in ticks (TicksPerDay ticks to  *)
(* the day).  Every time.Now() of the code is a read of `now` in the step  *)
(* that performs it; the clock may advance between two steps of a call,    *)
(* by at most MaxLatency ticks over the whole call.                        *)
(*                                                                         *)
(* Cache, PrivateKey, Certificate and the duration constants are code of   *)
(* the repository that is not in src/mitm.go; they are modelled from the   *)
(* specification (spec.md, sections 3, 4.1 and 4.2).                       *)
(***************************************************************************)
EXTENDS Integers, Sequences, FiniteSets, TLC

(***************************************************************************)
(* Bounds of the model.                                                    *)
(***************************************************************************)
NumConns == 2
NumTunnels == 1
MaxChunks == 1
TicksPerDay == 1
MaxLatency == 1
SlackDays == 2

Conns == 1..NumConns
Tunnels == 1..NumTunnels
None == [none |-> TRUE]

(***************************************************************************)
(* Durations (the const block of the repository, used at lines 54, 58, 84  *)
(* and 99).  ONE_MONTH and ONE_YEAR are the month and year counts handed   *)
(* to time.AddDate.                                                        *)
(***************************************************************************)
ONE_DAY == TicksPerDay
TWO_WEEKS == 14 * ONE_DAY
ONE_MONTH == 1
ONE_YEAR == 1

MaxNow == TWO_WEEKS + SlackDays * TicksPerDay

\* time.Time.AddDate(years, months, 0), with a 30-day month and a 365-day year
AddDate(t, years, months) == t + (years * 365 + months * 30) * TicksPerDay

(***************************************************************************)
(* Request addresses: strings, as sequences of one-character strings.      *)
(***************************************************************************)
Addrs == { <<"a">>, <<"a", ":", "4">>, <<"b", ":", "8">> }

RECURSIVE IndexOfColon(_, _)
IndexOfColon(s, i) ==
    IF i > Len(s) THEN 0
    ELSE IF s[i] = ":" THEN i
    ELSE IndexOfColon(s, i + 1)

\* strings.Split(addr, ":")[0]
SplitHost(addr) ==
    LET i == IndexOfColon(addr, 1)
    IN  IF i = 0 THEN addr ELSE SubSeq(addr, 1, i - 1)

\* regexp.MatchString(":[0-9]+$", host)
RECURSIVE AllDigits(_, _)
AllDigits(s, i) ==
    IF i > Len(s) THEN TRUE
    ELSE s[i] \in {"0", "4", "8"} /\ AllDigits(s, i + 1)

RECURSIVE HasPortFrom(_, _)
HasPortFrom(s, i) ==
    IF i >= Len(s) THEN FALSE
    ELSE (s[i] = ":" /\ AllDigits(s, i + 1)) \/ HasPortFrom(s, i + 1)

HasPort(host) == HasPortFrom(host, 1)

Names == { SplitHost(a) : a \in Addrs }

VARIABLES
    now,            \* the wall clock, in ticks
    keyFile,        \* tlsConfig.PrivateKeyFile: absent, unreadable or a key
    certFile,       \* tlsConfig.CertFile: absent, unreadable or a certificate
    boot,           \* position of InitConfig / GenerateCertForClient
    pk,             \* hw.pk, None before it is set
    issuingCert,    \* hw.issuingCert
    dynamicCerts,   \* hw.dynamicCerts: name -> entry or None
    certMutex,      \* hw.certMutex: 0 when free, else the connection holding it
    serial,         \* number of leaves signed so far (identity of the next one)
    https,          \* hw.https, the flag shared by all handlers
    raddr,          \* *hw.MyConfig.Raddr: "" or the upstream proxy address
    monitor,        \* *hw.MyConfig.Monitor
    pc,             \* position of each task: <<connection, role>> -> label
    req,            \* the request each connection's handler was called with
    cert,           \* FakeCertForName: the leaf returned to the connection
    generatedCert,  \* FakeCertForName: the local generatedCert
    call,           \* per connection: when the FakeCertForName call started
                    \* and returned, what it found and whether it signed
    serverTLSConfig, \* hw.tlsConfig.ServerTLSConfig, the shared template
    sock,           \* per connection: the client socket
    tlsConn,        \* per connection: tlsConnIn, the server-side TLS session
    rreq,           \* per connection: the request DumpHTTPAndHTTPs is called with
    up,             \* per connection: connOut, the upstream connection
    respOut,        \* per connection: the response read from upstream
    relay,          \* per connection: what DumpHTTPAndHTTPs has done so far
    tunnel          \* per connection: the sockets and channels of Forward

certVars == <<dynamicCerts, certMutex, serial, cert, generatedCert, call>>
bootVars == <<keyFile, certFile, boot, pk, issuingCert>>
cfgVars == <<raddr, monitor, serverTLSConfig>>
relayVars == <<sock, tlsConn, rreq, up, respOut, relay>>
vars == <<now, bootVars, certVars, https, cfgVars, pc, req, relayVars, tunnel>>

Roles == {"handler", "serve", "dump", "copyIn", "copyOut"}
Tasks == Conns \X Roles
H(c) == <<c, "handler">>    \* the listener's task calling ServeHTTP
S(c) == <<c, "serve">>      \* the task spawned at line 335 (http.Serve)
D(c) == <<c, "dump">>       \* the task spawned at line 112 (DumpRequestOut)
CI(c) == <<c, "copyIn">>    \* the task spawned at line 412: client to upstream
CO(c) == <<c, "copyOut">>   \* the task spawned at line 413: upstream to client

At(t, l) == pc[t] = l
Goto(t, l) == pc' = [pc EXCEPT ![t] = l]

(***************************************************************************)
(* Key & certificate store (the keyman part of the repository).            *)
(***************************************************************************)
\* PrivateKey.TLSCertificateFor(organization, name, validUntil, isCA, issuer):
\* a certificate for `name` bound to key `key`, signed by `issuer` (by itself
\* when issuer is None)
TLSCertificateFor(key, name, validUntil, isCA, issuer, id) ==
    [key |-> key, name |-> name, isCA |-> isCA, issuer |-> issuer, id |-> id,
     notAfter |-> validUntil]

\* Certificate.ExpiresBefore(t)
ExpiresBefore(c, t) == c.notAfter < t

\* the two persisted PEM files: absent, unreadable, or holding a key / a certificate
AbsentFile == [file |-> "absent"]
UnreadableFile == [file |-> "unreadable"]
Key(k) == [keyid |-> k]

\* LoadPKFromFile / LoadCertificateFromFile succeed
IsKey(f) == f \notin {AbsentFile, UnreadableFile}
IsCert(f) == f \notin {AbsentFile, UnreadableFile}

\* line 54: the issuing certificate has to be (re)generated
NeedNewIssuingCertNoExpiry(loaded, t) == ~IsCert(loaded)
NeedNewIssuingCert(loaded, t) ==
    \/ ~IsCert(loaded)
    \/ ExpiresBefore(loaded, AddDate(t, 0, ONE_MONTH))

\* lines 55-60: the validity of a regenerated issuing certificate
NewIssuingCertValidUntil(t) == AddDate(t, ONE_YEAR, 0)

\* GenerateCertForClient, lines 45-52: load the private key or generate one.
\* GeneratePK may fail (the error is returned); WriteToFile's result is ignored.
LoadOrGeneratePK ==
    /\ boot = "start"
    /\ IF IsKey(keyFile)
       THEN /\ pk' = keyFile
            /\ boot' = "cert"
            /\ UNCHANGED keyFile
       ELSE \E ok \in BOOLEAN :
              IF ok
              THEN /\ pk' = Key(2)
                   /\ \E written \in BOOLEAN :
                        keyFile' = IF written THEN Key(2) ELSE keyFile
                   /\ boot' = "cert"
              ELSE /\ boot' = "fatal"
                   /\ UNCHANGED <<pk, keyFile>>
    /\ UNCHANGED <<now, certFile, issuingCert, certVars, https, cfgVars, pc, req, relayVars, tunnel>>

\* GenerateCertForClient, lines 53-67: load the issuing certificate, or
\* self-sign a new one when it is unavailable or expires within a month.
LoadOrGenerateIssuingCert ==
    /\ boot = "cert"
    /\ IF NeedNewIssuingCert(certFile, now)
       THEN \E ok \in BOOLEAN :
              IF ok
              THEN /\ issuingCert' = TLSCertificateFor(pk, <<"gomitmproxy">>,
                                        NewIssuingCertValidUntil(now), TRUE, None, 1)
                   /\ \E written \in BOOLEAN :
                        certFile' = IF written THEN issuingCert' ELSE certFile
                   /\ boot' = "ready"
              ELSE /\ boot' = "fatal"
                   /\ UNCHANGED <<issuingCert, certFile>>
       ELSE /\ issuingCert' = certFile
            /\ boot' = "ready"
            /\ UNCHANGED certFile
    /\ UNCHANGED <<now, keyFile, pk, certVars, https, cfgVars, pc, req, relayVars, tunnel>>

(***************************************************************************)
(* The certificate cache (cache.go of the repository): entries carry an    *)
(* absolute expiry, set to the time of insertion plus the TTL; a lookup    *)
(* finds an entry only while it is unexpired.                              *)
(***************************************************************************)
Live(cache, name, t) == cache[name] # None /\ t < cache[name].expiration

CacheGet(cache, name, t) == IF Live(cache, name, t) THEN cache[name].data ELSE None

CacheSet(cache, name, data, ttl, t) ==
    [cache EXCEPT ![name] = [expiration |-> t + ttl, data |-> data]]

NewCache == [n \in Names |-> None]

(***************************************************************************)
(* FakeCertForName (lines 70-102).                                         *)
(***************************************************************************)
certTTL == TWO_WEEKS
cacheTTLOneDay == ONE_DAY
cacheTTL == certTTL - ONE_DAY

NoCall == [arrived |-> 0, retAt |-> 0, startMiss |-> FALSE, minted |-> FALSE,
           state |-> "none"]

Name(c) == SplitHost(req[c].addr)

Returned(c, leaf, signed) ==
    /\ cert' = [cert EXCEPT ![c] = leaf]
    /\ call' = [call EXCEPT ![c].retAt = now, ![c].minted = signed,
                             ![c].state = "ok"]

\* lines 71-74: the lookup outside the lock
FirstGet(c) ==
    /\ At(H(c), "fc_get1")
    /\ LET found == CacheGet(dynamicCerts, Name(c), now)
       IN  IF found # None
           THEN /\ Returned(c, found, FALSE)
                /\ Goto(H(c), "ic_hijack")
           ELSE /\ Goto(H(c), "fc_lock")
                /\ UNCHANGED <<cert, call>>
    /\ UNCHANGED <<now, bootVars, dynamicCerts, certMutex, serial, generatedCert,
                   https, cfgVars, req, relayVars, tunnel>>

\* line 76: hw.certMutex.Lock()
LockNoMutex(c) ==
    /\ At(H(c), "fc_lock")
    /\ Goto(H(c), "fc_get2")
    /\ UNCHANGED <<now, bootVars, certVars, https, cfgVars, req, relayVars, tunnel>>

Lock(c) ==
    /\ At(H(c), "fc_lock")
    /\ certMutex = 0
    /\ certMutex' = c
    /\ Goto(H(c), "fc_get2")
    /\ UNCHANGED <<now, bootVars, dynamicCerts, serial, cert, generatedCert, call,
                   https, cfgVars, req, relayVars, tunnel>>

\* lines 78-81: the lookup under the lock (the deferred Unlock runs on return)
SecondGet(c) ==
    /\ At(H(c), "fc_get2")
    /\ LET found == CacheGet(dynamicCerts, Name(c), now)
       IN  IF found # None
           THEN /\ Returned(c, found, FALSE)
                /\ certMutex' = 0
                /\ Goto(H(c), "ic_hijack")
           ELSE /\ Goto(H(c), "fc_sign")
                /\ UNCHANGED <<cert, call, certMutex>>
    /\ UNCHANGED <<now, bootVars, dynamicCerts, serial, generatedCert,
                   https, cfgVars, req, relayVars, tunnel>>

\* a signing step whose error return leaves the mutex locked
SignKeepsLock(c) ==
    /\ At(H(c), "fc_sign")
    /\ \E outcome \in {"ok", "signError", "keypairError"} :
         IF outcome = "ok"
         THEN /\ generatedCert' = [generatedCert EXCEPT ![c] =
                    TLSCertificateFor(pk, Name(c), now + certTTL, FALSE,
                                      issuingCert, serial + 1)]
              /\ serial' = serial + 1
              /\ Goto(H(c), "fc_set")
              /\ UNCHANGED <<call, certMutex>>
         ELSE /\ call' = [call EXCEPT ![c].retAt = now, ![c].state = outcome]
              /\ Goto(H(c), "ic_certError")
              /\ UNCHANGED <<generatedCert, serial, certMutex>>
    /\ UNCHANGED <<now, bootVars, dynamicCerts, cert, https, cfgVars, req, relayVars, tunnel>>

\* lines 84-97: sign a leaf valid until time.Now() + certTTL and assemble the
\* key pair; either may fail, and the deferred Unlock runs on the error return
Sign(c) ==
    /\ At(H(c), "fc_sign")
    /\ \E outcome \in {"ok", "signError", "keypairError"} :
         IF outcome = "ok"
         THEN /\ generatedCert' = [generatedCert EXCEPT ![c] =
                    TLSCertificateFor(pk, Name(c), now + certTTL, FALSE,
                                      issuingCert, serial + 1)]
              /\ serial' = serial + 1
              /\ Goto(H(c), "fc_set")
              /\ UNCHANGED <<call, certMutex>>
         ELSE /\ call' = [call EXCEPT ![c].retAt = now, ![c].state = outcome]
              /\ certMutex' = 0
              /\ Goto(H(c), "ic_certError")
              /\ UNCHANGED <<generatedCert, serial>>
    /\ UNCHANGED <<now, bootVars, dynamicCerts, cert, https, cfgVars, req, relayVars, tunnel>>

\* lines 99-101: insert with the cache TTL and return the new key pair
SetAndReturn(c) ==
    /\ At(H(c), "fc_set")
    /\ dynamicCerts' = CacheSet(dynamicCerts, Name(c), generatedCert[c], cacheTTL, now)
    /\ Returned(c, generatedCert[c], TRUE)
    /\ certMutex' = 0
    /\ Goto(H(c), "ic_hijack")
    /\ UNCHANGED <<now, bootVars, serial, generatedCert, https, cfgVars, req, relayVars, tunnel>>

InFakeCertForName(c) == pc[H(c)] \in {"fc_get1", "fc_lock", "fc_get2", "fc_sign", "fc_set"}

(***************************************************************************)
(* ServeHTTP (lines 290-304), called by the listener with a request.       *)
(***************************************************************************)
\* a dispatch that looks at the method before the upstream proxy address
ServeHTTPMethodFirst(c, r) ==
    /\ boot = "ready"
    /\ At(H(c), "idle")
    /\ req' = [req EXCEPT ![c] = r]
    /\ IF r.method = "CONNECT"
       THEN /\ https' = TRUE
            /\ Goto(H(c), "fc_get1")
            /\ call' = [call EXCEPT ![c] =
                  [arrived |-> now, retAt |-> now,
                   startMiss |-> ~Live(dynamicCerts, SplitHost(r.addr), now),
                   minted |-> FALSE, state |-> "running"]]
            /\ UNCHANGED rreq
       ELSE IF raddr # ""
       THEN /\ Goto(H(c), "fw_hijack")
            /\ UNCHANGED <<https, call, rreq>>
       ELSE /\ https' = FALSE
            /\ Goto(H(c), "rl_start")
            /\ rreq' = [rreq EXCEPT ![c] = r]
            /\ UNCHANGED call
    /\ UNCHANGED <<now, bootVars, dynamicCerts, certMutex, serial, cert,
                   generatedCert, cfgVars, sock, tlsConn, up, respOut, relay, tunnel>>

ServeHTTP(c, r) ==
    /\ boot = "ready"
    /\ At(H(c), "idle")
    /\ req' = [req EXCEPT ![c] = r]
    /\ IF raddr # ""
       THEN /\ Goto(H(c), "fw_hijack")
            /\ UNCHANGED <<https, call, rreq>>
       ELSE IF r.method = "CONNECT"
       THEN /\ https' = TRUE
            /\ Goto(H(c), "fc_get1")
            /\ call' = [call EXCEPT ![c] =
                  [arrived |-> now, retAt |-> now,
                   startMiss |-> ~Live(dynamicCerts, SplitHost(r.addr), now),
                   minted |-> FALSE, state |-> "running"]]
            /\ UNCHANGED rreq
       ELSE /\ https' = FALSE
            /\ Goto(H(c), "rl_start")
            /\ rreq' = [rreq EXCEPT ![c] = r]
            /\ UNCHANGED call
    /\ UNCHANGED <<now, bootVars, dynamicCerts, certMutex, serial, cert,
                   generatedCert, cfgVars, sock, tlsConn, up, respOut, relay, tunnel>>

(***************************************************************************)
(* Client sockets and what is written on them.                             *)
(***************************************************************************)
NewSock == [hijacked |-> FALSE, out |-> <<>>, closed |-> FALSE, status |-> 0]

\* "HTTP/1.1 200 OK\r\n\r\n" (line 342)
Ack == [kind |-> "ack", resp |-> None]
\* a record of the server-side TLS handshake
TlsRecord == [kind |-> "tls", resp |-> None]
\* httputil.DumpResponse(respOut, true) (line 179)
DumpResponse(r) == [kind |-> "response", resp |-> r]

Responses == { [status |-> 200], [status |-> 404] }

\* connIn.Write(b): the bytes reach the socket unless the write fails
Write(s, b, ok) == IF ok THEN [s EXCEPT !.out = Append(@, b)] ELSE s

\* respBadGateway (lines 401-405)
respBadGateway(s) == [s EXCEPT !.status = 502]

Written(c, b) == \E i \in 1..Len(sock[c].out) : sock[c].out[i] = b

NoRelay == [exit |-> "", wrote |-> FALSE, filterCalls |-> 0,
            observer |-> "", posts |-> 0, monitorDumps |-> 0, dials |-> 0]

(***************************************************************************)
(* InterceptHTTPs (lines 306-343), after FakeCertForName has returned.     *)
(***************************************************************************)
\* an interceptor that goes on after a failed FakeCertForName
CertErrorIgnored(c) ==
    /\ At(H(c), "ic_certError")
    /\ Goto(H(c), "ic_hijack")
    /\ UNCHANGED <<now, bootVars, certVars, https, cfgVars, req, relayVars, tunnel>>

\* lines 311-315: FakeCertForName failed
CertError(c) ==
    /\ At(H(c), "ic_certError")
    /\ sock' = [sock EXCEPT ![c] = respBadGateway(@)]
    /\ Goto(H(c), "done")
    /\ UNCHANGED <<now, bootVars, certVars, https, cfgVars, req,
                   tlsConn, rreq, up, respOut, relay, tunnel>>

\* copyTlsConfig (lines 393-399): a new configuration holding a copy of the
\* template's fields, or an empty one for a nil template
copyTlsConfig(template) ==
    IF template = None THEN [certificates |-> <<>>]
    ELSE [certificates |-> template.certificates]

\* an interceptor that sets the leaf in the shared template itself
InterceptHijackShared(c) ==
    /\ At(H(c), "ic_hijack")
    /\ \E ok \in BOOLEAN :
         IF ok
         THEN /\ sock' = [sock EXCEPT ![c].hijacked = TRUE]
              /\ serverTLSConfig' = [certificates |-> <<cert[c]>>]
              /\ tlsConn' = [tlsConn EXCEPT ![c] =
                    [state |-> "new", certificates |-> <<cert[c]>>]]
              /\ Goto(H(c), "ic_spawn")
         ELSE /\ sock' = [sock EXCEPT ![c] = respBadGateway(@)]
              /\ Goto(H(c), "done")
              /\ UNCHANGED <<tlsConn, serverTLSConfig>>
    /\ UNCHANGED <<now, bootVars, certVars, https, raddr, monitor, req,
                   rreq, up, respOut, relay, tunnel>>

\* lines 318-327: hijack the client socket, derive the connection's TLS
\* configuration from the template and wrap the socket (tls.Server)
InterceptHijack(c) ==
    /\ At(H(c), "ic_hijack")
    /\ \E ok \in BOOLEAN :
         IF ok
         THEN /\ sock' = [sock EXCEPT ![c].hijacked = TRUE]
              /\ tlsConn' = [tlsConn EXCEPT ![c] =
                    [state |-> "new",
                     certificates |->
                        [copyTlsConfig(serverTLSConfig)
                            EXCEPT !.certificates = <<cert[c]>>].certificates]]
              /\ Goto(H(c), "ic_spawn")
         ELSE /\ sock' = [sock EXCEPT ![c] = respBadGateway(@)]
              /\ Goto(H(c), "done")
              /\ UNCHANGED tlsConn
    /\ UNCHANGED <<now, bootVars, certVars, https, cfgVars, req,
                   rreq, up, respOut, relay, tunnel>>

\* lines 335-340: go http.Serve(listener, handler)
SpawnServe(c) ==
    /\ At(H(c), "ic_spawn")
    /\ pc' = [pc EXCEPT ![H(c)] = "ic_ack", ![S(c)] = "sv_accept"]
    /\ UNCHANGED <<now, bootVars, certVars, https, cfgVars, req, relayVars, tunnel>>

\* line 342: connIn.Write("HTTP/1.1 200 OK\r\n\r\n"), its result ignored
WriteAck(c) ==
    /\ At(H(c), "ic_ack")
    /\ \E ok \in BOOLEAN : sock' = [sock EXCEPT ![c] = Write(@, Ack, ok)]
    /\ Goto(H(c), "done")
    /\ UNCHANGED <<now, bootVars, certVars, https, cfgVars, req,
                   tlsConn, rreq, up, respOut, relay, tunnel>>

(***************************************************************************)
(* The TLS-serving task: http.Serve(listener, handler) of line 336.        *)
(***************************************************************************)
\* the server accepts the listener's connection and starts the server-side
\* handshake on the hijacked socket, waiting for the ClientHello
ServeAccept(c) ==
    /\ At(S(c), "sv_accept")
    /\ tlsConn' = [tlsConn EXCEPT ![c].state = "handshaking"]
    /\ Goto(S(c), "sv_handshake")
    /\ UNCHANGED <<now, bootVars, certVars, https, cfgVars, req,
                   sock, rreq, up, respOut, relay, tunnel>>

\* the client, which sends its ClientHello once it has read the 200, and the
\* server's answer: the handshake records written on the socket
Handshake(c) ==
    /\ At(S(c), "sv_handshake")
    /\ Written(c, Ack)
    /\ \E ok \in BOOLEAN :
         IF ok
         THEN /\ sock' = [sock EXCEPT ![c] = Write(@, TlsRecord, TRUE)]
              /\ tlsConn' = [tlsConn EXCEPT ![c].state = "established"]
              /\ Goto(S(c), "sv_request")
         ELSE /\ tlsConn' = [tlsConn EXCEPT ![c].state = "failed"]
              /\ Goto(S(c), "done")
              /\ UNCHANGED sock
    /\ UNCHANGED <<now, bootVars, certVars, https, cfgVars, req,
                   rreq, up, respOut, relay, tunnel>>

\* lines 328-333: an inner request arrives; its URL is rewritten to https and
\* its own Host, and it is handed to DumpHTTPAndHTTPs
InnerRequest(c) ==
    /\ At(S(c), "sv_request")
    /\ \E trigger \in BOOLEAN :
         rreq' = [rreq EXCEPT ![c] =
                    [addr |-> req[c].addr, method |-> "GET", trigger |-> trigger]]
    /\ Goto(S(c), "rl_start")
    /\ UNCHANGED <<now, bootVars, certVars, https, cfgVars, req,
                   sock, tlsConn, up, respOut, relay, tunnel>>

(***************************************************************************)
(* DumpHTTPAndHTTPs (lines 104-198).  It runs on the listener's task for a *)
(* plain request and on the TLS-serving task for an inner request.         *)
(***************************************************************************)
R(c) == IF req[c].method = "CONNECT" THEN S(c) ELSE H(c)

\* a return that leaves the client socket open
ReturnOpen(c, how) ==
    /\ sock' = sock
    /\ relay' = [relay EXCEPT ![c].exit = how]
    /\ Goto(R(c), "returned")

\* the function returns: the deferred connIn.Close() of line 123 runs
Return(c, how) ==
    /\ sock' = [sock EXCEPT ![c].closed = TRUE]
    /\ relay' = [relay EXCEPT ![c].exit = how]
    /\ Goto(R(c), "returned")

\* lines 105-115: clean the headers, make the channel, spawn the dump task
RelayStart(c) ==
    /\ req[c] # None
    /\ At(R(c), "rl_start")
    /\ pc' = [pc EXCEPT ![R(c)] = "rl_hijack", ![D(c)] = "dp_dump"]
    /\ UNCHANGED <<now, bootVars, certVars, https, cfgVars, req, relayVars, tunnel>>

\* line 113: the dump task produces the request dump, then offers its
\* completion on the unbuffered channel (line 114)
DumpRequest(c) ==
    /\ At(D(c), "dp_dump")
    /\ Goto(D(c), "dp_send")
    /\ UNCHANGED <<now, bootVars, certVars, https, cfgVars, req, relayVars, tunnel>>

\* lines 119-123: hijack; a failure is logged, and the defer statement on the
\* nil connIn panics (the server recovers the panic and closes the connection)
RelayHijack(c) ==
    /\ req[c] # None
    /\ At(R(c), "rl_hijack")
    /\ \E ok \in BOOLEAN :
         IF ok
         THEN /\ sock' = [sock EXCEPT ![c].hijacked = TRUE]
              /\ Goto(R(c), "rl_dial")
              /\ UNCHANGED relay
         ELSE /\ sock' = [sock EXCEPT ![c].closed = TRUE]
              /\ relay' = [relay EXCEPT ![c].exit = "hijackPanic"]
              /\ Goto(R(c), "panicked")
    /\ UNCHANGED <<now, bootVars, certVars, https, cfgVars, req,
                   tlsConn, rreq, up, respOut, tunnel>>


\* lines 126-133 and 152-154: the address dialled
DialAddr(host, tls) ==
    IF HasPort(host) THEN host
    ELSE IF tls THEN host \o <<":", "4", "4", "3">>
    ELSE host \o <<":", "8", "0">>

\* lines 130-139 and 151-161: read hw.https and dial; a failed plain dial
\* returns, a failed TLS dial panics (logger.Panicln)
RelayDial(c) ==
    /\ req[c] # None
    /\ At(R(c), "rl_dial")
    /\ \E ok \in BOOLEAN :
         IF ok
         THEN /\ up' = [up EXCEPT ![c] =
                    [addr |-> DialAddr(rreq[c].addr, https),
                     mode |-> IF https THEN "tls" ELSE "tcp",
                     sent |-> FALSE]]
              /\ relay' = [relay EXCEPT ![c].dials = @ + 1]
              /\ Goto(R(c), "rl_write")
              /\ UNCHANGED sock
         ELSE /\ sock' = [sock EXCEPT ![c].closed = TRUE]
              /\ relay' = [relay EXCEPT ![c].dials = @ + 1,
                                        ![c].exit =
                              IF https THEN "tlsDialPanic" ELSE "dialError"]
              /\ Goto(R(c), IF https THEN "panicked" ELSE "returned")
              /\ UNCHANGED up
    /\ UNCHANGED <<now, bootVars, certVars, https, cfgVars, req,
                   tlsConn, rreq, respOut, tunnel>>

\* lines 141-144 and 162-165: req.Write(connOut)
RelayWrite(c) ==
    /\ req[c] # None
    /\ At(R(c), "rl_write")
    /\ \E ok \in BOOLEAN :
         IF ok
         THEN /\ up' = [up EXCEPT ![c].sent = TRUE]
              /\ Goto(R(c), "rl_read")
              /\ UNCHANGED <<sock, relay>>
         ELSE /\ Return(c, "writeError")
              /\ UNCHANGED up
    /\ UNCHANGED <<now, bootVars, certVars, https, cfgVars, req,
                   tlsConn, rreq, respOut, tunnel>>

\* lines 146-149, 167-170 and 174-177: http.ReadResponse; without a response
\* (an error or EOF) the function returns
RelayRead(c) ==
    /\ req[c] # None
    /\ At(R(c), "rl_read")
    /\ \E r \in Responses \cup {None} :
         /\ respOut' = [respOut EXCEPT ![c] = r]
         /\ IF r = None
            THEN Return(c, "noResponse")
            ELSE /\ Goto(R(c), "rl_reply")
                 /\ UNCHANGED <<sock, relay>>
    /\ UNCHANGED <<now, bootVars, certVars, https, cfgVars, req,
                   tlsConn, rreq, up, tunnel>>

\* lines 179-187: dump the response and write it to the client socket; an
\* error of either is logged and the function goes on
RelayReply(c) ==
    /\ req[c] # None
    /\ At(R(c), "rl_reply")
    /\ \E ok \in BOOLEAN :
         /\ sock' = [sock EXCEPT ![c] = Write(@, DumpResponse(respOut[c]), ok)]
         /\ relay' = [relay EXCEPT ![c].wrote = ok]
    /\ Goto(R(c), "rl_filter")
    /\ UNCHANGED <<now, bootVars, certVars, https, cfgVars, req,
                   tlsConn, rreq, up, respOut, tunnel>>

\* filter (lines 213-288): what the observer does with a request
ObserverOutcomes(r) ==
    IF r.trigger
    THEN {"marshalError", "collectorError", "bodyReadError", "decodeError",
          "stateOther", "state1000"}
    ELSE {"noTrigger"}

\* the outcomes in which the collector was called (line 257)
Posted(o) == o \in {"collectorError", "bodyReadError", "decodeError",
                    "stateOther", "state1000"}

\* an observer that reports its failures on the client socket
FilterReporting(c) ==
    /\ req[c] # None
    /\ At(R(c), "rl_filter")
    /\ \E o \in ObserverOutcomes(rreq[c]) :
         /\ relay' = [relay EXCEPT ![c].filterCalls = @ + 1,
                                   ![c].observer = o,
                                   ![c].posts = @ + (IF Posted(o) THEN 1 ELSE 0)]
         /\ sock' = [sock EXCEPT ![c] =
                       Write(@, [kind |-> "observer", resp |-> None],
                             o \notin {"noTrigger", "state1000"})]
    /\ Goto(R(c), "rl_wait")
    /\ UNCHANGED <<now, bootVars, certVars, https, cfgVars, req,
                   tlsConn, rreq, up, respOut, tunnel>>

\* line 189: hw.filter(respOut, req)
Filter(c) ==
    /\ req[c] # None
    /\ At(R(c), "rl_filter")
    /\ \E o \in ObserverOutcomes(rreq[c]) :
         relay' = [relay EXCEPT ![c].filterCalls = @ + 1,
                                ![c].observer = o,
                                ![c].posts = @ + (IF Posted(o) THEN 1 ELSE 0)]
    /\ Goto(R(c), "rl_wait")
    /\ UNCHANGED <<now, bootVars, certVars, https, cfgVars, req,
                   sock, tlsConn, rreq, up, respOut, tunnel>>

\* lines 191-198: receive the dump task's completion, spawn the monitor dump
\* when monitoring, and return
RelayWait(c) ==
    /\ req[c] # None
    /\ At(R(c), "rl_wait")
    /\ At(D(c), "dp_send")
    /\ pc' = [pc EXCEPT ![R(c)] = "returned", ![D(c)] = "dp_done"]
    /\ sock' = [sock EXCEPT ![c].closed = TRUE]
    /\ relay' = [relay EXCEPT ![c].exit = "ok",
                              ![c].monitorDumps = @ + (IF monitor THEN 1 ELSE 0)]
    /\ UNCHANGED <<now, bootVars, certVars, https, cfgVars, req,
                   tlsConn, rreq, up, respOut, tunnel>>

(***************************************************************************)
(* Forward (lines 345-377): the opaque tunnel through the upstream proxy.  *)
(* The peers (the client and the upstream proxy) send at most MaxChunks    *)
(* chunks each and may close or reset their end at any time.               *)
(***************************************************************************)
NoTunnel ==
    [connIn |-> "none", connOut |-> "none",     \* "none", "ok" or "nil"
     clientEnd |-> "open", upEnd |-> "open",    \* the peers' ends
     fromClient |-> 0, fromUp |-> 0,            \* chunks sent and not yet read
     sentClient |-> 0, sentUp |-> 0,            \* chunks the peers have sent
     toUp |-> 0, toClient |-> 0,                \* chunks written through
     preamble |-> "none",                       \* outcome of connectProxyServer
     reqUp |-> FALSE,                           \* the request was written upstream
     errIn |-> "none", errOut |-> "none",       \* io.Copy's result in each task
     wChan |-> <<>>, rChan |-> <<>>,            \* the two channels of Transport
     result |-> "none",                         \* what Transport returned
     closedOut |-> FALSE]                       \* connOut.Close() was called

\* "HTTP/1.1 200 Connection Established ..." (lines 358-359)
Established == [kind |-> "established", resp |-> None]

\* line 346: hijack; the error is overwritten by the dial's at line 347
ForwardHijack(c) ==
    /\ At(H(c), "fw_hijack")
    /\ \E ok \in BOOLEAN :
         /\ tunnel' = [tunnel EXCEPT ![c].connIn = IF ok THEN "ok" ELSE "nil"]
         /\ sock' = [sock EXCEPT ![c].hijacked = ok]
    /\ Goto(H(c), "fw_dial")
    /\ UNCHANGED <<now, bootVars, certVars, https, cfgVars, req,
                   tlsConn, rreq, up, respOut, relay>>

\* lines 347-350: dial the upstream proxy; a failure is logged only
ForwardDial(c) ==
    /\ At(H(c), "fw_dial")
    /\ \E ok \in BOOLEAN :
         tunnel' = [tunnel EXCEPT ![c].connOut = IF ok THEN "ok" ELSE "nil"]
    /\ Goto(H(c), "fw_connect")
    /\ UNCHANGED <<now, bootVars, certVars, https, cfgVars, req, relayVars>>

\* lines 352-355 and connectProxyServer (lines 428-452): the CONNECT preamble;
\* on a nil connOut the write panics, any other failure is logged only
ForwardConnect(c) ==
    /\ At(H(c), "fw_connect")
    /\ IF tunnel[c].connOut = "nil"
       THEN /\ Goto(H(c), "panicked")
            /\ UNCHANGED tunnel
       ELSE /\ \E o \in {"ok", "ioError", "non200"} :
                 tunnel' = [tunnel EXCEPT ![c].preamble = o]
            /\ Goto(H(c), "fw_ack")
    /\ UNCHANGED <<now, bootVars, certVars, https, cfgVars, req, relayVars>>

\* lines 357-372: acknowledge a CONNECT to the client, or write any other
\* request upstream; a failed write returns, a nil connIn panics
ForwardAck(c) ==
    /\ At(H(c), "fw_ack")
    /\ IF req[c].method = "CONNECT"
       THEN IF tunnel[c].connIn = "nil"
            THEN /\ Goto(H(c), "panicked")
                 /\ UNCHANGED <<sock, tunnel>>
            ELSE \E ok \in BOOLEAN :
                   /\ sock' = [sock EXCEPT ![c] = Write(@, Established, ok)]
                   /\ Goto(H(c), IF ok THEN "fw_transport" ELSE "returned")
                   /\ UNCHANGED tunnel
       ELSE \E ok \in BOOLEAN :
              /\ tunnel' = [tunnel EXCEPT ![c].reqUp = ok]
              /\ Goto(H(c), IF ok THEN "fw_transport" ELSE "returned")
              /\ UNCHANGED sock
    /\ UNCHANGED <<now, bootVars, certVars, https, cfgVars, req,
                   tlsConn, rreq, up, respOut, relay>>

(***************************************************************************)
(* Transport (lines 408-421) and MyCopy (lines 423-426).                   *)
(***************************************************************************)
ChanCap == 1

\* lines 409-413: make the two channels and spawn the two copy tasks
TransportStart(c) ==
    /\ At(H(c), "fw_transport")
    /\ pc' = [pc EXCEPT ![H(c)] = "tr_select", ![CI(c)] = "cp_copy",
                        ![CO(c)] = "cp_copy"]
    /\ UNCHANGED <<now, bootVars, certVars, https, cfgVars, req, relayVars, tunnel>>

\* line 424, client to upstream: io.Copy(conn2, conn1) reads the client
\* socket until EOF or an error and writes what it reads upstream
CopyIn(c) ==
    /\ At(CI(c), "cp_copy")
    /\ LET t == tunnel[c] IN
       IF t.connIn = "nil"
       THEN /\ Goto(CI(c), "panicked")
            /\ UNCHANGED tunnel
       ELSE IF t.fromClient > 0
       THEN \E ok \in (IF t.upEnd = "open" THEN {TRUE} ELSE BOOLEAN) :
              IF ok
              THEN /\ tunnel' = [tunnel EXCEPT ![c].fromClient = @ - 1,
                                               ![c].toUp = @ + 1]
                   /\ UNCHANGED pc
              ELSE /\ tunnel' = [tunnel EXCEPT ![c].fromClient = @ - 1,
                                               ![c].errIn = "error"]
                   /\ Goto(CI(c), "cp_send")
       ELSE /\ t.clientEnd # "open"
            /\ tunnel' = [tunnel EXCEPT ![c].errIn =
                            IF t.clientEnd = "closed" THEN "nil" ELSE "error"]
            /\ Goto(CI(c), "cp_send")
    /\ UNCHANGED <<now, bootVars, certVars, https, cfgVars, req, relayVars>>

\* line 424, upstream to client: io.Copy(conn1, conn2)
CopyOut(c) ==
    /\ At(CO(c), "cp_copy")
    /\ LET t == tunnel[c] IN
       IF t.fromUp > 0
       THEN IF t.connIn = "nil"
            THEN /\ Goto(CO(c), "panicked")
                 /\ UNCHANGED tunnel
            ELSE \E ok \in (IF t.clientEnd = "open" THEN {TRUE} ELSE BOOLEAN) :
                   IF ok
                   THEN /\ tunnel' = [tunnel EXCEPT ![c].fromUp = @ - 1,
                                                    ![c].toClient = @ + 1]
                        /\ UNCHANGED pc
                   ELSE /\ tunnel' = [tunnel EXCEPT ![c].fromUp = @ - 1,
                                                    ![c].errOut = "error"]
                        /\ Goto(CO(c), "cp_send")
       ELSE /\ t.upEnd # "open"
            /\ tunnel' = [tunnel EXCEPT ![c].errOut =
                            IF t.upEnd = "closed" THEN "nil" ELSE "error"]
            /\ Goto(CO(c), "cp_send")
    /\ UNCHANGED <<now, bootVars, certVars, https, cfgVars, req, relayVars>>

\* a send on an unbuffered channel: it completes only with a receiver waiting
\* in the select, which takes the value and returns
SendInUnbuffered(c) ==
    /\ At(CI(c), "cp_send")
    /\ At(H(c), "tr_select")
    /\ tunnel' = [tunnel EXCEPT ![c].result = tunnel[c].errIn]
    /\ pc' = [pc EXCEPT ![CI(c)] = "cp_done", ![H(c)] = "returned"]
    /\ UNCHANGED <<now, bootVars, certVars, https, cfgVars, req, relayVars>>

\* line 425: ch <- err, on the task's own channel of capacity 1
SendIn(c) ==
    /\ At(CI(c), "cp_send")
    /\ Len(tunnel[c].wChan) < ChanCap
    /\ tunnel' = [tunnel EXCEPT ![c].wChan = Append(@, tunnel[c].errIn)]
    /\ Goto(CI(c), "cp_done")
    /\ UNCHANGED <<now, bootVars, certVars, https, cfgVars, req, relayVars>>

SendOut(c) ==
    /\ At(CO(c), "cp_send")
    /\ Len(tunnel[c].rChan) < ChanCap
    /\ tunnel' = [tunnel EXCEPT ![c].rChan = Append(@, tunnel[c].errOut)]
    /\ Goto(CO(c), "cp_done")
    /\ UNCHANGED <<now, bootVars, certVars, https, cfgVars, req, relayVars>>

\* lines 415-420 and 373-377: the select receives the first result there is;
\* Transport returns it and Forward returns
SelectBoth(c) ==
    /\ At(H(c), "tr_select")
    /\ tunnel[c].wChan # <<>> /\ tunnel[c].rChan # <<>>
    /\ tunnel' = [tunnel EXCEPT ![c].wChan = <<>>, ![c].rChan = <<>>,
                                ![c].result = Head(tunnel[c].wChan)]
    /\ Goto(H(c), "returned")
    /\ UNCHANGED <<now, bootVars, certVars, https, cfgVars, req, relayVars>>

Select(c) ==
    /\ At(H(c), "tr_select")
    /\ \/ /\ tunnel[c].wChan # <<>>
          /\ tunnel' = [tunnel EXCEPT ![c].wChan = Tail(@),
                                      ![c].result = Head(tunnel[c].wChan)]
       \/ /\ tunnel[c].rChan # <<>>
          /\ tunnel' = [tunnel EXCEPT ![c].rChan = Tail(@),
                                      ![c].result = Head(tunnel[c].rChan)]
    /\ Goto(H(c), "returned")
    /\ UNCHANGED <<now, bootVars, certVars, https, cfgVars, req, relayVars>>

\* the peers of a tunnel
ClientSends(c) ==
    /\ tunnel[c].connIn = "ok"
    /\ tunnel[c].clientEnd = "open"
    /\ tunnel[c].sentClient < MaxChunks
    /\ tunnel' = [tunnel EXCEPT ![c].fromClient = @ + 1, ![c].sentClient = @ + 1]
    /\ UNCHANGED <<now, bootVars, certVars, https, cfgVars, pc, req, relayVars>>

UpstreamSends(c) ==
    /\ tunnel[c].connOut = "ok"
    /\ tunnel[c].upEnd = "open"
    /\ tunnel[c].sentUp < MaxChunks
    /\ tunnel' = [tunnel EXCEPT ![c].fromUp = @ + 1, ![c].sentUp = @ + 1]
    /\ UNCHANGED <<now, bootVars, certVars, https, cfgVars, pc, req, relayVars>>

ClientCloses(c) ==
    /\ tunnel[c].connIn = "ok"
    /\ tunnel[c].clientEnd = "open"
    /\ \E how \in {"closed", "reset"} :
         tunnel' = [tunnel EXCEPT ![c].clientEnd = how]
    /\ UNCHANGED <<now, bootVars, certVars, https, cfgVars, pc, req, relayVars>>

UpstreamCloses(c) ==
    /\ tunnel[c].connOut = "ok"
    /\ tunnel[c].upEnd = "open"
    /\ \E how \in {"closed", "reset"} :
         tunnel' = [tunnel EXCEPT ![c].upEnd = how]
    /\ UNCHANGED <<now, bootVars, certVars, https, cfgVars, pc, req, relayVars>>

(***************************************************************************)
(* The clock.  A FakeCertForName call takes at most MaxLatency ticks.      *)
(***************************************************************************)
Tick ==
    /\ boot = "ready"
    /\ \E d \in 1..(MaxNow - now) :
         /\ \A c \in Conns : InFakeCertForName(c) => now + d <= call[c].arrived + MaxLatency
         /\ now' = now + d
    /\ UNCHANGED <<bootVars, certVars, https, cfgVars, pc, req, relayVars, tunnel>>

(***************************************************************************)
(* Properties of the certificate path.                                     *)
(***************************************************************************)
Done(c) == call[c].state = "ok"

\* two calls whose executions share an instant of the clock
Overlap(c1, c2) ==
    /\ call[c1].arrived <= call[c2].retAt
    /\ call[c2].arrived <= call[c1].retAt

\* C1 (single-flight minting): any two concurrent FakeCertForName calls for
\* the same host that both started with no unexpired cache entry for it and
\* both succeeded return the same leaf, issued by the current issuing
\* certificate, and at most one of them signed it; every cache entry holds a
\* leaf for the name it is stored under.
C1_SingleFlight ==
    /\ \A c1, c2 \in Conns :
         ( /\ c1 # c2
           /\ Done(c1) /\ Done(c2)
           /\ Name(c1) = Name(c2)
           /\ call[c1].startMiss /\ call[c2].startMiss
           /\ Overlap(c1, c2) )
         => /\ cert[c1] = cert[c2]
            /\ cert[c1].issuer = issuingCert
            /\ ~(call[c1].minted /\ call[c2].minted)
            /\ (call[c1].minted \/ call[c2].minted \/
                  \E c3 \in Conns \ {c1, c2} : call[c3].minted /\ cert[c3] = cert[c1])
    /\ \A n \in Names :
         dynamicCerts[n] # None => dynamicCerts[n].data.name = n

\* two concurrent callers of one host, one of which signed while the other,
\* which also started on an empty cache, was handed the same leaf
C1_Witness ==
    \E c1, c2 \in Conns :
      /\ c1 # c2 /\ Done(c1) /\ Done(c2)
      /\ Name(c1) = Name(c2)
      /\ call[c1].startMiss /\ call[c2].startMiss
      /\ Overlap(c1, c2)
      /\ call[c1].minted /\ ~call[c2].minted
      /\ cert[c1] = cert[c2]

\* the returned leaf's remaining validity at the return of the call
Remaining(c) == cert[c].notAfter - call[c].retAt

\* C8 (leaf TTL): at every return of FakeCertForName the returned leaf's
\* remaining validity is strictly more than one day and at most two weeks.
C8_LeafTTL ==
    \A c \in Conns :
      Done(c) => Remaining(c) > ONE_DAY /\ Remaining(c) <= TWO_WEEKS

\* c2's CONNECT arrived after c1's call had returned
Successive(c1, c2) ==
    /\ Done(c1) /\ Done(c2)
    /\ Name(c1) = Name(c2)
    /\ call[c1].retAt <= call[c2].arrived

\* C9 as claimed (cache hit within the leaf TTL): two successive CONNECTs for
\* one host, the second arriving within two weeks of the first, cause one
\* signing operation.
C9_WithinLeafTTL ==
    \A c1, c2 \in Conns :
      ( /\ c1 # c2 /\ Successive(c1, c2)
        /\ call[c2].arrived - call[c1].arrived < TWO_WEEKS )
      => ~(call[c1].minted /\ call[c2].minted)

\* C9 as amended (cache hit within the cache TTL): two successive CONNECTs
\* for one host, the second looking the host up less than two weeks minus one
\* day after the first arrived, cause one signing operation.
C9_WithinCacheTTL ==
    \A c1, c2 \in Conns :
      ( /\ c1 # c2 /\ Successive(c1, c2)
        /\ call[c2].retAt - call[c1].arrived < TWO_WEEKS - ONE_DAY )
      => ~(call[c1].minted /\ call[c2].minted)

\* a second CONNECT, days after the first, served from the cache
C9_Witness ==
    \E c1, c2 \in Conns :
      /\ c1 # c2 /\ Successive(c1, c2)
      /\ call[c2].arrived > call[c1].retAt
      /\ call[c2].retAt - call[c1].arrived < TWO_WEEKS - ONE_DAY
      /\ call[c1].minted /\ ~call[c2].minted
      /\ cert[c2] = cert[c1]

\* C10 (CA freshness): when GenerateCertForClient has returned without error
\* the issuing certificate is valid for at least one more month, and one
\* generated by this run is a CA certificate valid for one year.
C10_CAFreshness ==
    boot = "ready" =>
      /\ issuingCert # None
      /\ issuingCert.notAfter >= AddDate(now, 0, 1)
      /\ issuingCert.id = 1 =>
           /\ issuingCert.notAfter = AddDate(now, 1, 0)
           /\ issuingCert.isCA
           /\ issuingCert.key = pk

\* a start on a persisted certificate that expires within the month, which
\* is replaced
C10_Witness ==
    /\ boot = "ready"
    /\ IsCert(certFile)
    /\ certFile.id = 0
    /\ certFile.notAfter > now
    /\ certFile.notAfter < AddDate(now, 0, 1)
    /\ issuingCert.id = 1


(***************************************************************************)
(* Properties of the interceptor, the relay and the observer.              *)
(***************************************************************************)
Intercepted(c) == req[c] # None /\ req[c].method = "CONNECT"

\* the server-side TLS session on the connection's socket has been started
TlsStarted(c) ==
    tlsConn[c] # None /\ tlsConn[c].state \in {"handshaking", "established", "failed"}

\* C2 (ACK precedence): on an intercepted connection the server-side TLS
\* session is not started, and no TLS record is written, before the bytes
\* "HTTP/1.1 200 OK\r\n\r\n" have been written to the client socket.
C2_AckPrecedence ==
    \A c \in Conns :
      (TlsStarted(c) \/ Written(c, TlsRecord))
        => Len(sock[c].out) > 0 /\ sock[c].out[1] = Ack

\* C3 (dial mode): an inner request of an intercepted connection is relayed
\* over TLS, to port 443 when it names no port, and a plain request over
\* plain TCP, to port 80 when it names no port.
C3_DialMode ==
    \A c \in Conns :
      up[c] # None =>
        IF Intercepted(c)
        THEN /\ up[c].mode = "tls"
             /\ ~HasPort(rreq[c].addr) => up[c].addr = rreq[c].addr \o <<":", "4", "4", "3">>
        ELSE /\ up[c].mode = "tcp"
             /\ ~HasPort(rreq[c].addr) => up[c].addr = rreq[c].addr \o <<":", "8", "0">>

\* DumpHTTPAndHTTPs has returned on one of its return statements
RelayReturned(c) == req[c] # None /\ pc[R(c)] = "returned" /\ relay[c].exit # ""

\* C4 (dump rendezvous): DumpHTTPAndHTTPs does not return, on any of its
\* exit paths, before the request-dump task has completed, and the monitor
\* dump is emitted only after that task has completed.
C4_DumpRendezvous ==
    \A c \in Conns :
      /\ RelayReturned(c) => pc[D(c)] = "dp_done"
      /\ relay[c].monitorDumps > 0 => pc[D(c)] = "dp_done"

\* C5 (response observer): the observer is invoked exactly once for a relayed
\* request whose upstream response was read, only after the response bytes
\* have been sent to the client socket, and never for a request whose relay
\* ended in a dial, write or read failure.
C5_ObserverOnce ==
    \A c \in Conns :
      /\ relay[c].filterCalls <= 1
      /\ (RelayReturned(c) /\ respOut[c] # None) => relay[c].filterCalls = 1
      /\ relay[c].filterCalls > 0 =>
           /\ respOut[c] # None
           /\ Written(c, DumpResponse(respOut[c]))
      /\ relay[c].exit \in {"dialError", "tlsDialPanic", "writeError", "noResponse"}
           => relay[c].filterCalls = 0

\* the observer has run on the connection's request
Observed(c) == relay[c].filterCalls > 0

\* C6 (observer isolation): two relays of the same kind of request that read
\* the same upstream response and whose write to the client fared the same
\* have put the same bytes on the client socket, whatever their observers did
\* (not triggered, failed at any step, or succeeded).
C6_ObserverIsolation ==
    \A c1, c2 \in Conns :
      ( /\ Observed(c1) /\ Observed(c2)
        /\ req[c1].method = req[c2].method
        /\ rreq[c1].addr = rreq[c2].addr
        /\ respOut[c1] = respOut[c2]
        /\ relay[c1].wrote = relay[c2].wrote )
      => /\ sock[c1].out = sock[c2].out
         /\ sock[c1].status = sock[c2].status

\* the same response relayed twice, to a client that received it, once with
\* the observer succeeding and once with the observer failing
C6_Witness ==
    \E c1, c2 \in Conns :
      /\ Observed(c1) /\ Observed(c2)
      /\ req[c1].method = req[c2].method
      /\ respOut[c1] = respOut[c2]
      /\ relay[c1].wrote /\ relay[c2].wrote
      /\ relay[c1].observer = "state1000"
      /\ relay[c2].observer \in {"marshalError", "collectorError", "bodyReadError",
                                 "decodeError", "stateOther"}
      /\ sock[c1].out = sock[c2].out
      /\ Written(c1, DumpResponse(respOut[c1]))

(***************************************************************************)
(* Properties of the opaque tunnel.                                        *)
(***************************************************************************)
EndClosed(c) == tunnel[c].clientEnd # "open" \/ tunnel[c].upEnd # "open"

\* C7 (tunnel liveness): while Transport is running on two sockets, once
\* either end has closed or failed, Transport eventually returns.
C7_TunnelLiveness ==
    \A c \in Tunnels :
      (At(H(c), "tr_select") /\ tunnel[c].connIn = "ok" /\ EndClosed(c))
        ~> At(H(c), "returned")

\* Transport has returned the first task's result while the second task is
\* still copying
C7_Witness ==
    \E c \in Tunnels :
      /\ At(H(c), "returned")
      /\ tunnel[c].result # "none"
      /\ EndClosed(c)
      /\ At(CI(c), "cp_copy") \/ At(CO(c), "cp_copy")

(***************************************************************************)
(* Properties of the dispatch and of the handlers' error handling.         *)
(***************************************************************************)
\* the branch a request was given to, read from what the branch has touched
TookForward(c) == At(H(c), "fw_hijack") \/ tunnel[c] # NoTunnel
TookIntercept(c) == call[c] # NoCall \/ tlsConn[c] # None \/ ~At(S(c), "idle")
TookRelay(c) == rreq[c] # None /\ At(S(c), "idle")

\* C11 (mode dispatch): a request handled by ServeHTTP takes exactly one
\* branch: the opaque tunnel when the upstream proxy address is set, whatever
\* the method; otherwise the HTTPS intercept for a CONNECT; otherwise the
\* plain relay.  With the address set no leaf is minted and no TLS
\* interception occurs.
C11_ModeDispatch ==
    \A c \in Conns :
      req[c] # None =>
        /\ raddr # "" =>
              /\ TookForward(c) /\ ~TookIntercept(c) /\ ~TookRelay(c)
              /\ serial = 0 /\ dynamicCerts = NewCache /\ cert[c] = None
        /\ (raddr = "" /\ req[c].method = "CONNECT") =>
              TookIntercept(c) /\ ~TookForward(c) /\ ~TookRelay(c)
        /\ (raddr = "" /\ req[c].method # "CONNECT") =>
              TookRelay(c) /\ ~TookForward(c) /\ ~TookIntercept(c)

\* a CONNECT tunnelled through the upstream proxy, up to Transport
C11_Witness ==
    \E c \in Conns :
      /\ raddr # "" /\ req[c] # None /\ req[c].method = "CONNECT"
      /\ At(H(c), "tr_select")
      /\ Written(c, Established)

\* taking over the client socket has failed, in each of the three modes
HijackFailed(c) ==
    \/ tunnel[c].connIn = "nil"
    \/ relay[c].exit = "hijackPanic"
    \/ call[c].state = "ok" /\ At(H(c), "done") /\ ~sock[c].hijacked

\* the handler of the connection's request is over
HandlerOver(c) ==
    \/ pc[H(c)] \in {"done", "returned", "panicked"}
    \/ pc[S(c)] \in {"returned", "panicked"}

\* C12 (hijack failure): in every mode, when taking over the client socket
\* fails the handler replies 502 and does no further I/O on a client or an
\* upstream socket for that request.
C12_HijackFailure ==
    \A c \in Conns :
      HijackFailed(c) =>
        /\ tunnel[c].connOut = "none"
        /\ up[c] = None
        /\ \A i \in 1..Len(sock[c].out) : sock[c].out[i] \in {Ack, TlsRecord}
        /\ HandlerOver(c) => sock[c].status = 502

\* FakeCertForName has returned an error to the connection's handler
MintFailed(c) == call[c].state \in {"signError", "keypairError"}

\* C13 (mint failure): when FakeCertForName fails, InterceptHTTPs replies 502
\* and stops: the ACK is never written, the socket is not taken over, no TLS
\* session is started and no inner request is relayed.
C13_MintFailure ==
    \A c \in Conns :
      MintFailed(c) =>
        /\ pc[H(c)] \in {"ic_certError", "done"}
        /\ At(H(c), "done") => sock[c].status = 502
        /\ sock[c].out = <<>> /\ ~sock[c].hijacked
        /\ tlsConn[c] = None /\ At(S(c), "idle")
        /\ rreq[c] = None /\ up[c] = None /\ relay[c] = NoRelay

\* a CONNECT whose signing failed, answered with 502, next to a CONNECT that
\* was intercepted
C13_Witness ==
    \E c, d \in Conns :
      /\ MintFailed(c) /\ At(H(c), "done") /\ sock[c].status = 502
      /\ Written(d, Ack) /\ sock[d].status = 0

\* the conditions under which the tunnel must not be established
ForwardAborted(c) == tunnel[c].connOut = "nil" \/ tunnel[c].preamble = "non200"

\* C14 (forward-mode abort): when the dial to the upstream proxy fails or the
\* proxy answers the CONNECT preamble with a status other than 200, no
\* "200 Connection Established" is written to the client, the request is not
\* written upstream, no copy task is started, no 502 is synthesized, and the
\* client socket is closed once the handler is over.
C14_ForwardAbort ==
    \A c \in Conns :
      ForwardAborted(c) =>
        /\ ~Written(c, Established)
        /\ ~tunnel[c].reqUp
        /\ At(CI(c), "idle") /\ At(CO(c), "idle")
        /\ sock[c].status # 502
        /\ HandlerOver(c) => sock[c].closed

\* the relay of the connection's request ended on an upstream failure
RelayFailed(c) ==
    relay[c].exit \in {"dialError", "tlsDialPanic", "writeError", "noResponse"}

\* what belongs to one connection
Connection(c) ==
    <<pc[H(c)], pc[S(c)], pc[D(c)], req[c], rreq[c], sock[c], tlsConn[c],
      up[c], respOut[c], relay[c]>>

\* the failure of one connection's relay leaves the other connections as
\* they are
FailureIsLocal ==
    \A c \in Conns :
      (~RelayFailed(c) /\ RelayFailed(c)') =>
         \A d \in Conns \ {c} : Connection(d)' = Connection(d)

\* the state of a request whose relay has failed
FailedRelayEnded ==
    \A c \in Conns :
      RelayFailed(c) =>
        /\ pc[R(c)] \in {"returned", "panicked"}
        /\ sock[c].closed
        /\ sock[c].status = 0
        /\ \A i \in 1..Len(sock[c].out) : sock[c].out[i] \in {Ack, TlsRecord}
        /\ relay[c].dials = 1
        /\ respOut[c] = None

\* C15 (relay failure policy): an error of the upstream dial, write or read
\* of a hijacked relay request ends that request only: the client socket is
\* closed, nothing is synthesized to the client, the dial is not retried, and
\* the other connections are left as they are.
C15_RelayFailure == []FailedRelayEnded /\ [][FailureIsLocal]_vars

\* one relay failed on its upstream write while another relay delivered its
\* response
C15_Witness ==
    \E c, d \in Conns :
      /\ relay[c].exit = "writeError" /\ sock[c].closed
      /\ relay[d].exit = "ok" /\ relay[d].wrote

\* what each intercepted connection presents
PresentsOwnLeaf ==
    \A c \in Conns :
      tlsConn[c] # None =>
        /\ tlsConn[c].certificates = <<cert[c]>>
        /\ cert[c].name = SplitHost(req[c].addr)
        /\ ~cert[c].isCA
        /\ cert[c].issuer = issuingCert

\* C16 (per-connection TLS configuration): each intercepted connection
\* presents exactly the leaf minted for its own CONNECT host, the host string
\* before the first ':', and no interception changes the shared server TLS
\* template.
C16_PerConnectionConfig ==
    []PresentsOwnLeaf /\ [][serverTLSConfig' = serverTLSConfig]_vars

\* two connections intercepted for different hosts, next to a template
\* that holds a certificate of its own
C16_Witness ==
    \E c, d \in Conns :
      /\ tlsConn[c] # None /\ tlsConn[d] # None
      /\ req[c].addr = <<"a", ":", "4">> /\ req[d].addr = <<"b", ":", "8">>
      /\ tlsConn[c].certificates # tlsConn[d].certificates
      /\ serverTLSConfig # None /\ serverTLSConfig.certificates # <<>>

\* Transport has returned to Forward, and Forward to its caller
TunnelOver(c) == At(H(c), "returned") /\ tunnel[c].result # "none"

\* C17 (tunnel teardown): when the tunnel has terminated on its first copy
\* task and Forward has returned, the client socket and the upstream socket
\* are both closed.
C17_TunnelTeardown ==
    \A c \in Conns :
      TunnelOver(c) => sock[c].closed /\ tunnel[c].closedOut

\* the mutex is held only by a call between its Lock and its return
MutexHeldInside ==
    /\ certMutex # 0 => pc[H(certMutex)] \in {"fc_get2", "fc_sign", "fc_set"}
    /\ \A c \in Conns : MintFailed(c) => certMutex # c

\* the step on which a call fails changes nothing of the cache and releases
\* the mutex
FailedMintFrame ==
    \A c \in Conns :
      (~MintFailed(c) /\ MintFailed(c)') =>
         /\ dynamicCerts' = dynamicCerts
         /\ serial' = serial
         /\ certMutex = c /\ certMutex' = 0

\* a call that finds no entry under the lock goes on to sign for itself
OwnAttempt ==
    \A c \in Conns :
      (At(H(c), "fc_get2") /\ ~At(H(c), "fc_get2")'
          /\ CacheGet(dynamicCerts, Name(c), now) = None)
        => At(H(c), "fc_sign")'

\* C18 (a failed mint leaves no trace): when FakeCertForName fails, the cache
\* is unchanged and the mutex is released, so that a later or waiting call,
\* for any host, is not blocked for ever at the lock and makes its own mint
\* attempt.
C18_FailedMintNoTrace ==
    /\ []MutexHeldInside
    /\ [][FailedMintFrame /\ OwnAttempt]_vars
    /\ \A c \in Conns : At(H(c), "fc_lock") ~> ~At(H(c), "fc_lock")

\* one call failed and another call for the same host then minted its leaf
C18_Witness ==
    \E c, d \in Conns :
      /\ MintFailed(c)
      /\ call[d].state = "ok" /\ call[d].minted
      /\ Name(c) = Name(d)
      /\ Live(dynamicCerts, Name(d), now)
      /\ certMutex = 0

\* C19 (no leaked dump task): the request-dump task spawned by an invocation
\* of DumpHTTPAndHTTPs eventually terminates, on every exit path of the
\* handler: its send on the unbuffered channel is eventually received.
C19_DumpTerminates ==
    \A c \in Conns : ~At(D(c), "idle") ~> At(D(c), "dp_done")

\* a copy task is at its send with room in its channel
CanSend(c) ==
    /\ At(CI(c), "cp_send") => Len(tunnel[c].wChan) < ChanCap
    /\ At(CO(c), "cp_send") => Len(tunnel[c].rChan) < ChanCap

\* C20 (result channels): a copy task that has finished its io.Copy never
\* blocks on reporting its result: its own channel of capacity 1 has room
\* whenever it is at its send, and the send completes, also after Transport
\* has returned.
C20_SendNeverBlocks ==
    /\ [](\A c \in Tunnels : CanSend(c))
    /\ \A c \in Tunnels :
         /\ At(CI(c), "cp_send") ~> At(CI(c), "cp_done")
         /\ At(CO(c), "cp_send") ~> At(CO(c), "cp_done")

\* Transport has returned the result of one task, and the other task has
\* completed its send into its own channel afterwards
C20_Witness ==
    \E c \in Tunnels :
      /\ At(H(c), "returned")
      /\ At(CI(c), "cp_done") /\ At(CO(c), "cp_done")
      /\ Len(tunnel[c].wChan) + Len(tunnel[c].rChan) = 1

(***************************************************************************)
(* Specifications.                                                         *)
(***************************************************************************)

\* a key and an issuing certificate as a first run of the program leaves them
FreshCA == TLSCertificateFor(Key(2), <<"gomitmproxy">>, NewIssuingCertValidUntil(0),
                             TRUE, None, 0)

InitHandlers ==
    /\ dynamicCerts = NewCache
    /\ certMutex = 0
    /\ serial = 0
    /\ https = FALSE
    /\ pc = [t \in Tasks |-> "idle"]
    /\ req = [c \in Conns |-> None]
    /\ cert = [c \in Conns |-> None]
    /\ generatedCert = [c \in Conns |-> None]
    /\ call = [c \in Conns |-> NoCall]
    /\ sock = [c \in Conns |-> NewSock]
    /\ tlsConn = [c \in Conns |-> None]
    /\ rreq = [c \in Conns |-> None]
    /\ up = [c \in Conns |-> None]
    /\ respOut = [c \in Conns |-> None]
    /\ relay = [c \in Conns |-> NoRelay]
    /\ tunnel = [c \in Conns |-> NoTunnel]

\* InitConfig (lines 379-391) on any state of the two persisted files
CertFiles ==
    {AbsentFile, UnreadableFile} \cup
    { TLSCertificateFor(k, <<"gomitmproxy">>, t, TRUE, None, 0) :
        k \in {Key(1)}, t \in {0, 3, 29 * TicksPerDay, 30 * TicksPerDay,
                          30 * TicksPerDay + 1, 30 * TicksPerDay + 4,
                          200 * TicksPerDay} }

InitCA ==
    /\ now \in 1..3
    /\ keyFile \in {AbsentFile, UnreadableFile, Key(1)}
    /\ certFile \in CertFiles
    /\ boot = "start"
    /\ pk = None
    /\ issuingCert = None
    /\ raddr = ""
    /\ monitor = FALSE
    /\ serverTLSConfig = [certificates |-> <<>>]
    /\ InitHandlers

NextCA == LoadOrGeneratePK \/ LoadOrGenerateIssuingCert

SpecCA == InitCA /\ [][NextCA]_vars

\* the handlers' side of the certificate path, after a first start
InitCert ==
    /\ now = 0
    /\ keyFile = Key(2)
    /\ certFile = FreshCA
    /\ boot = "ready"
    /\ pk = Key(2)
    /\ issuingCert = FreshCA
    /\ raddr = ""
    /\ monitor = FALSE
    /\ serverTLSConfig = [certificates |-> <<>>]
    /\ InitHandlers

Connect(c) ==
    \E a \in Addrs : ServeHTTP(c, [addr |-> a, method |-> "CONNECT", trigger |-> FALSE])

NextCert ==
    \/ Tick
    \/ \E c \in Conns :
         \/ Connect(c)
         \/ FirstGet(c)
         \/ Lock(c)
         \/ SecondGet(c)
         \/ Sign(c)
         \/ SetAndReturn(c)

SpecCert == InitCert /\ [][NextCert]_vars

\* the proxy serving CONNECT and plain requests directly (no upstream proxy)
RelayAddrs == { <<"a">> }

InitRelay ==
    /\ now = 0
    /\ keyFile = Key(2)
    /\ certFile = FreshCA
    /\ boot = "ready"
    /\ pk = Key(2)
    /\ issuingCert = FreshCA
    /\ raddr = ""
    /\ monitor \in BOOLEAN
    /\ serverTLSConfig = [certificates |-> <<>>]
    /\ InitHandlers

\* a CONNECT, or a plain request whose URI the observer is or is not
\* triggered by
Request(c) ==
    \E a \in RelayAddrs :
      \/ ServeHTTP(c, [addr |-> a, method |-> "CONNECT", trigger |-> FALSE])
      \/ \E g \in BOOLEAN : ServeHTTP(c, [addr |-> a, method |-> "GET", trigger |-> g])

Next ==
    \E c \in Conns :
      \/ Request(c)
      \/ FirstGet(c)
      \/ Lock(c)
      \/ SecondGet(c)
      \/ Sign(c)
      \/ SetAndReturn(c)
      \/ CertError(c)
      \/ InterceptHijack(c)
      \/ SpawnServe(c)
      \/ WriteAck(c)
      \/ ServeAccept(c)
      \/ Handshake(c)
      \/ InnerRequest(c)
      \/ RelayStart(c)
      \/ DumpRequest(c)
      \/ RelayHijack(c)
      \/ RelayDial(c)
      \/ RelayWrite(c)
      \/ RelayRead(c)
      \/ RelayReply(c)
      \/ Filter(c)
      \/ RelayWait(c)

Spec == InitRelay /\ [][Next]_vars

\* the proxy forwarding everything through an upstream proxy

InitTunnel ==
    /\ now = 0
    /\ keyFile = Key(2)
    /\ certFile = FreshCA
    /\ boot = "ready"
    /\ pk = Key(2)
    /\ issuingCert = FreshCA
    /\ raddr = "127.0.0.1:8888"
    /\ monitor = FALSE
    /\ serverTLSConfig = [certificates |-> <<>>]
    /\ InitHandlers

TunnelRequest(c) ==
    \E m \in {"CONNECT", "GET"} :
      ServeHTTP(c, [addr |-> <<"a">>, method |-> m, trigger |-> FALSE])

NextTunnel ==
    \E c \in Tunnels :
      \/ TunnelRequest(c)
      \/ ForwardHijack(c)
      \/ ForwardDial(c)
      \/ ForwardConnect(c)
      \/ ForwardAck(c)
      \/ TransportStart(c)
      \/ CopyIn(c)
      \/ CopyOut(c)
      \/ SendIn(c)
      \/ SendOut(c)
      \/ Select(c)
      \/ ClientSends(c)
      \/ UpstreamSends(c)
      \/ ClientCloses(c)
      \/ UpstreamCloses(c)

SpecTunnel == InitTunnel /\ [][NextTunnel]_vars

\* the scheduler runs every task that can take a step; the peers are free
TunnelFairness ==
    \A c \in Tunnels :
      /\ WF_vars(CopyIn(c))
      /\ WF_vars(CopyOut(c))
      /\ WF_vars(SendIn(c))
      /\ WF_vars(SendOut(c))
      /\ WF_vars(Select(c))

SpecTunnelFair == SpecTunnel /\ TunnelFairness

\* the proxy in either configuration
InitProxy == InitRelay \/ InitTunnel

NextProxy == Next \/ NextTunnel

SpecProxy == InitProxy /\ [][NextProxy]_vars

\* the interceptor alone, on every kind of server TLS template: none, one
\* without certificates, one holding a certificate of its own
StaticCert == TLSCertificateFor(Key(2), <<"static">>, 0, FALSE, None, 0)

Templates == {None, [certificates |-> <<>>], [certificates |-> <<StaticCert>>]}

InitIntercept ==
    /\ now = 0
    /\ keyFile = Key(2)
    /\ certFile = FreshCA
    /\ boot = "ready"
    /\ pk = Key(2)
    /\ issuingCert = FreshCA
    /\ raddr = ""
    /\ monitor = FALSE
    /\ serverTLSConfig \in Templates
    /\ InitHandlers

NextIntercept ==
    \E c \in Conns :
      \/ Connect(c)
      \/ FirstGet(c)
      \/ Lock(c)
      \/ SecondGet(c)
      \/ Sign(c)
      \/ SetAndReturn(c)
      \/ CertError(c)
      \/ InterceptHijack(c)
      \/ SpawnServe(c)
      \/ WriteAck(c)
      \/ ServeAccept(c)
      \/ Handshake(c)

SpecIntercept == InitIntercept /\ [][NextIntercept]_vars

\* the mint path alone with the clock standing still, every call scheduled
\* until it returns
NextMint ==
    \E c \in Conns :
      \/ Connect(c)
      \/ FirstGet(c)
      \/ Lock(c)
      \/ SecondGet(c)
      \/ Sign(c)
      \/ SetAndReturn(c)

MintFairness ==
    \A c \in Conns :
      /\ WF_vars(FirstGet(c))
      /\ WF_vars(Lock(c))
      /\ WF_vars(SecondGet(c))
      /\ WF_vars(Sign(c))
      /\ WF_vars(SetAndReturn(c))

SpecMint == InitCert /\ [][NextMint]_vars /\ MintFairness

\* plain requests only, every task scheduled as long as it can take a step
PlainRequest(c) ==
    \E g \in BOOLEAN : ServeHTTP(c, [addr |-> <<"a">>, method |-> "GET", trigger |-> g])

NextPlain ==
    \E c \in Conns :
      \/ PlainRequest(c)
      \/ RelayStart(c)
      \/ DumpRequest(c)
      \/ RelayHijack(c)
      \/ RelayDial(c)
      \/ RelayWrite(c)
      \/ RelayRead(c)
      \/ RelayReply(c)
      \/ Filter(c)
      \/ RelayWait(c)

PlainFairness ==
    \A c \in Conns :
      /\ WF_vars(RelayStart(c))
      /\ WF_vars(DumpRequest(c))
      /\ WF_vars(RelayHijack(c))
      /\ WF_vars(RelayDial(c))
      /\ WF_vars(RelayWrite(c))
      /\ WF_vars(RelayRead(c))
      /\ WF_vars(RelayReply(c))
      /\ WF_vars(Filter(c))
      /\ WF_vars(RelayWait(c))

SpecPlainFair == InitRelay /\ [][NextPlain]_vars /\ PlainFairness

=============================================================================
